---- MODULE Spec2Model ----
(***************************************************************************)
(* Model of the file reorganization backend: path sandbox (config.py),     *)
(* move executor and empty-folder pruner (filesystem.py), extension        *)
(* planner (organize.py) and the apply / undo handlers with the in-memory  *)
(* undo stack (main.py).                                                   *)
(*                                                                         *)
(* Strings.  A name (path segment) is the sequence of its characters, so   *)
(* "f.t" is <<"f", ".", "t">> and "" is << >>.  A relative path string is  *)
(* the sequence of its "/"-separated segments, exactly str.split("/"):     *)
(* "a/f.t" is << <<"a">>, <<"f",".","t">> >>, "" is << << >> >>, "/a" is   *)
(* << << >>, <<"a">> >> and "./a" is << <<".">>, <<"a">> >>.  An absolute  *)
(* path is the sequence of its names below "/" (already normalised).       *)
(***************************************************************************)
EXTENDS Integers, Sequences, FiniteSets, TLC

VARIABLES
    fs,            \* the disk: [dirs: set of absolute paths, files: absolute path -> size]
    move_history,  \* main.py move_history: sequence of batches, top of stack last
    calls,         \* number of handler calls made so far
    last,          \* the last handler call: its request, its response, the disk at each
                   \* item, and how the OS answered os.rename / os.mkdir / os.rmdir
    applied,       \* for each batch of move_history, the apply call that recorded it
    runtime_root_path,  \* config.py _runtime_root_path: [set, path], set FALSE for None
    loop           \* the event loop: the task that holds it (0: none), every request's
                   \* handler coroutine with its position, and the tasks that wrote
                   \* to the disk, in the order of the writes

vars == <<fs, move_history, calls, last, applied, runtime_root_path, loop>>

----------------------------------------------------------------------------
(* Names used by the initial tree and by the requests.                     *)
EmptySeg == << >>
DotSeg == <<".">>
DotDotSeg == <<".", ".">>
nRoot == <<"r">>
nA == <<"a">>
nE == <<"e">>
nF == <<"f", ".", "t">>
nG == <<"g">>
nH == <<"h", ".", "T">>
nM == <<"m">>
nN == <<"n">>
nQ == <<"q">>
nX == <<"x">>
nY == <<"y">>
nT == <<"t">>
nFile1 == <<"f", "i", "l", "e", "1", ".", "t", "x", "t">>
nSong == <<"s", "o", "n", "g", ".", "m", "p", "3">>
nTxt == <<"t", "x", "t">>
nMp3 == <<"m", "p", "3">>
NoExtension == <<"n", "o", "-", "e", "x", "t", "e", "n", "s", "i", "o", "n">>

----------------------------------------------------------------------------
(* Sequence helpers.                                                       *)
IsPrefix(s, t) == Len(s) <= Len(t) /\ SubSeq(t, 1, Len(s)) = s

Front(s) == SubSeq(s, 1, Len(s) - 1)

Max(S) == CHOOSE x \in S : \A y \in S : y <= x

RECURSIVE NormSegs(_, _)
(* os.path.normpath of acc "/" segs: drops "" and ".", ".." pops.          *)
NormSegs(segs, acc) ==
    IF segs = << >> THEN acc
    ELSE LET s == Head(segs) IN
         IF s = EmptySeg \/ s = DotSeg THEN NormSegs(Tail(segs), acc)
         ELSE IF s = DotDotSeg
              THEN NormSegs(Tail(segs), IF acc = << >> THEN acc ELSE Front(acc))
              ELSE NormSegs(Tail(segs), Append(acc, s))

----------------------------------------------------------------------------
(* config.py                                                               *)
DefaultRoot == <<nRoot>>

\* _runtime_root_path = None
NoRuntimeRoot == [set |-> FALSE, path |-> << >>]

get_root_path == IF runtime_root_path.set THEN runtime_root_path.path ELSE DefaultRoot

\* ".." in relative_path: two consecutive dots inside one segment
HasDotDot(p) ==
    \E i \in DOMAIN p : \E j \in 1..(Len(p[i]) - 1) : p[i][j] = "." /\ p[i][j + 1] = "."

\* relative_path.startswith("/")
StartsWithSlash(p) == Len(p) >= 2 /\ p[1] = EmptySeg

\* os.path.abspath(os.path.join(root, relative_path))
AbsJoin(root, p) == IF StartsWithSlash(p) THEN NormSegs(p, << >>) ELSE NormSegs(p, root)

\* os.getcwd(): the directory the server was started in
Cwd == <<nRoot>>

\* os.path.abspath(path)
abspath(path) == AbsJoin(Cwd, path)

\* abs_path.startswith(root), a comparison of strings, not of segments
StrStartsWith(abs, root) ==
    IF root = << >> THEN TRUE
    ELSE /\ Len(abs) >= Len(root)
         /\ SubSeq(abs, 1, Len(root) - 1) = Front(root)
         /\ IsPrefix(root[Len(root)], abs[Len(root)])

validate_path(p) ==
    IF HasDotDot(p) \/ StartsWithSlash(p) THEN FALSE
    ELSE StrStartsWith(AbsJoin(get_root_path, p), get_root_path)

\* defined when validate_path(p); otherwise the code raises ValueError
get_absolute_path(p) == AbsJoin(get_root_path, p)

----------------------------------------------------------------------------
(* The disk.                                                               *)
IsFile(f, p) == p \in DOMAIN f.files

IsDir(f, p) == p = << >> \/ p \in f.dirs

Exists(f, p) == IsFile(f, p) \/ IsDir(f, p)

Entries(f) == f.dirs \cup DOMAIN f.files

\* os.scandir(d) yields nothing
IsEmptyDir(f, d) == ~ \E p \in Entries(f) : Len(p) = Len(d) + 1 /\ IsPrefix(d, p)

\* os.makedirs(d, exist_ok=True) raises
MakedirsFails(f, d, vol) ==
    \/ \E k \in 1..Len(d) : IsFile(f, SubSeq(d, 1, k))
    \/ vol = "readonly" /\ ~ IsDir(f, d)

Makedirs(f, d) ==
    [f EXCEPT !.dirs = @ \cup {SubSeq(d, 1, k) : k \in 1..Len(d)}]

\* a rename that leaves the source in place
RenameKeepsSource(f, s, d) ==
    LET Re(p) == IF IsPrefix(s, p) THEN d \o SubSeq(p, Len(s) + 1, Len(p)) ELSE p
        Back(q) == CHOOSE p \in DOMAIN f.files : Re(p) = q
    IN  [dirs |-> f.dirs \cup {Re(p) : p \in f.dirs},
         files |-> [q \in DOMAIN f.files \cup {Re(p) : p \in DOMAIN f.files} |->
                      IF q \in DOMAIN f.files THEN f.files[q] ELSE f.files[Back(q)]]]

\* the subtree at s now lives at d (d does not exist, its parent is a directory)
Rename(f, s, d) ==
    LET Re(p) == IF IsPrefix(s, p) THEN d \o SubSeq(p, Len(s) + 1, Len(p)) ELSE p
        Back(q) == CHOOSE p \in DOMAIN f.files : Re(p) = q
    IN  [dirs |-> {Re(p) : p \in f.dirs},
         files |-> [q \in {Re(p) : p \in DOMAIN f.files} |-> f.files[Back(q)]]]

\* os.rename(s, d) raises OSError: other volume, read-only disk, or d inside s
RenameFails(s, d, vol) == vol # "same" \/ IsPrefix(s, d)

\* shutil.move(s, d) raises: d inside s, or the copy cannot be written
FallbackFails(s, d, vol) == vol = "readonly" \/ IsPrefix(s, d)

----------------------------------------------------------------------------
(* filesystem.py apply_moves                                               *)
Move(f, t) == [from_path |-> f, to_path |-> t]

\* get_depth: number of non-empty segments
get_depth(p) == Cardinality({i \in DOMAIN p : p[i] # EmptySeg})

RECURSIVE SortFrom(_, _)
SortFrom(moves, d) ==
    IF d < 0 THEN << >>
    ELSE SelectSeq(moves, LAMBDA m : get_depth(m.from_path) = d) \o SortFrom(moves, d - 1)

\* the batch in the order it was sent
unsorted_moves(moves) == moves

\* sorted(moves, key=depth of from_path, reverse=True): stable, deepest first
sorted_moves(moves) ==
    IF moves = << >> THEN << >>
    ELSE SortFrom(moves, Max({get_depth(moves[i].from_path) : i \in DOMAIN moves}))

Result(m, status, reason, f) ==
    [from_path |-> m.from_path, to_path |-> m.to_path,
     status |-> status, reason |-> reason, fs |-> f]

\* os.path.exists(to_abs)
DestinationNeverExists(f, to_abs) == FALSE

DestinationExists(f, to_abs) == Exists(f, to_abs)

\* one iteration with the dry_run test placed after os.makedirs
MoveOneMakesDirs(f, m, dry_run, vol) ==
    LET from_abs == get_absolute_path(m.from_path)
        to_abs == get_absolute_path(m.to_path)
        dest_dir == Front(to_abs)
        made == Makedirs(f, dest_dir)
    IN  IF ~ Exists(f, from_abs) THEN Result(m, "error", "source_not_found", f)
        ELSE IF DestinationExists(f, to_abs) THEN Result(m, "skip", "destination_exists", f)
        ELSE IF MakedirsFails(f, dest_dir, vol) THEN Result(m, "error", "os_error", f)
        ELSE IF dry_run THEN Result(m, "dry_ok", "none", made)
        ELSE IF ~ RenameFails(from_abs, to_abs, vol)
             THEN Result(m, "moved", "none", Rename(made, from_abs, to_abs))
        ELSE IF ~ FallbackFails(from_abs, to_abs, vol)
             THEN Result(m, "moved_fallback", "used_shutil_move", Rename(made, from_abs, to_abs))
        ELSE Result(m, "error", "os_error", made)

\* one iteration with the destination test placed before the source test
MoveOneDestinationFirst(f, m, dry_run, vol) ==
    LET from_abs == get_absolute_path(m.from_path)
        to_abs == get_absolute_path(m.to_path)
        dest_dir == Front(to_abs)
        made == Makedirs(f, dest_dir)
    IN  IF DestinationExists(f, to_abs) THEN Result(m, "skip", "destination_exists", f)
        ELSE IF ~ Exists(f, from_abs) THEN Result(m, "error", "source_not_found", f)
        ELSE IF dry_run THEN Result(m, "dry_ok", "none", f)
        ELSE IF MakedirsFails(f, dest_dir, vol) THEN Result(m, "error", "os_error", f)
        ELSE IF ~ RenameFails(from_abs, to_abs, vol)
             THEN Result(m, "moved", "none", Rename(made, from_abs, to_abs))
        ELSE IF ~ FallbackFails(from_abs, to_abs, vol)
             THEN Result(m, "moved_fallback", "used_shutil_move", Rename(made, from_abs, to_abs))
        ELSE Result(m, "error", "os_error", made)

\* one iteration without the shutil.move fallback
MoveOneNoFallback(f, m, dry_run, vol) ==
    LET from_abs == get_absolute_path(m.from_path)
        to_abs == get_absolute_path(m.to_path)
        dest_dir == Front(to_abs)
        made == Makedirs(f, dest_dir)
    IN  IF ~ Exists(f, from_abs) THEN Result(m, "error", "source_not_found", f)
        ELSE IF DestinationExists(f, to_abs) THEN Result(m, "skip", "destination_exists", f)
        ELSE IF dry_run THEN Result(m, "dry_ok", "none", f)
        ELSE IF MakedirsFails(f, dest_dir, vol) THEN Result(m, "error", "os_error", f)
        ELSE IF ~ RenameFails(from_abs, to_abs, vol)
             THEN Result(m, "moved", "none", Rename(made, from_abs, to_abs))
        ELSE Result(m, "error", "os_error", made)

\* an iteration that moves onto a destination that exists
MoveOneOverwrites(f, m, dry_run, vol) ==
    LET from_abs == get_absolute_path(m.from_path)
        to_abs == get_absolute_path(m.to_path)
        dest_dir == Front(to_abs)
        made == Makedirs(f, dest_dir)
    IN  IF ~ Exists(f, from_abs) THEN Result(m, "error", "source_not_found", f)
        ELSE IF dry_run THEN Result(m, "dry_ok", "none", f)
        ELSE IF MakedirsFails(f, dest_dir, vol) THEN Result(m, "error", "os_error", f)
        ELSE IF ~ RenameFails(from_abs, to_abs, vol)
             THEN Result(m, "moved", "none", Rename(made, from_abs, to_abs))
        ELSE IF ~ FallbackFails(from_abs, to_abs, vol)
             THEN Result(m, "moved_fallback", "used_shutil_move", Rename(made, from_abs, to_abs))
        ELSE Result(m, "error", "os_error", made)

\* one iteration of the loop over sorted_moves, on disk f
MoveOne(f, m, dry_run, vol) ==
    LET from_abs == get_absolute_path(m.from_path)
        to_abs == get_absolute_path(m.to_path)
        dest_dir == Front(to_abs)
        made == Makedirs(f, dest_dir)
    IN  IF ~ Exists(f, from_abs) THEN Result(m, "error", "source_not_found", f)
        ELSE IF DestinationExists(f, to_abs) THEN Result(m, "skip", "destination_exists", f)
        ELSE IF dry_run THEN Result(m, "dry_ok", "none", f)
        ELSE IF MakedirsFails(f, dest_dir, vol) THEN Result(m, "error", "os_error", f)
        ELSE IF ~ RenameFails(from_abs, to_abs, vol)
             THEN Result(m, "moved", "none", Rename(made, from_abs, to_abs))
        ELSE IF ~ FallbackFails(from_abs, to_abs, vol)
             THEN Result(m, "moved_fallback", "used_shutil_move", Rename(made, from_abs, to_abs))
        ELSE Result(m, "error", "os_error", made)

RECURSIVE RunMovesUntilError(_, _, _, _)
\* a loop that ends at the first item that is not moved
RunMovesUntilError(f, moves, dry_run, vol) ==
    IF moves = << >> THEN << >>
    ELSE LET r == MoveOne(f, Head(moves), dry_run, vol)
         IN  IF r.status \in {"error", "skip"} THEN <<r>>
             ELSE <<r>> \o RunMovesUntilError(r.fs, Tail(moves), dry_run, vol)

RECURSIVE RunMoves(_, _, _, _)
\* the results of the loop, each with the disk as the item left it
RunMoves(f, moves, dry_run, vol) ==
    IF moves = << >> THEN << >>
    ELSE LET r == MoveOne(f, Head(moves), dry_run, vol)
         IN  <<r>> \o RunMoves(r.fs, Tail(moves), dry_run, vol)

\* a validation that looks at from_path only
FromValid(moves) == \A i \in DOMAIN moves : validate_path(moves[i].from_path)

\* the validation loop of apply_moves
AllValid(moves) ==
    \A i \in DOMAIN moves : validate_path(moves[i].from_path) /\ validate_path(moves[i].to_path)

\* apply_moves: [raised, steps]; raised means ValueError before any item
apply_moves(f, moves, dry_run, vol) ==
    IF ~ AllValid(moves) THEN [raised |-> TRUE, steps |-> << >>]
    ELSE [raised |-> FALSE, steps |-> RunMoves(f, sorted_moves(moves), dry_run, vol)]

FinalFs(f, steps) == IF steps = << >> THEN f ELSE steps[Len(steps)].fs

----------------------------------------------------------------------------
(* filesystem.py scan_tree (the disk of the model holds no symbolic link)  *)
Alphabet == <<"-", ".", "1", "3", "T", "a", "e", "f", "g", "h", "i", "l", "m", "n", "o",
              "p", "q", "r", "s", "t", "x", "y">>

Ord(c) == CHOOSE i \in DOMAIN Alphabet : Alphabet[i] = c

\* a < b as Python compares str
NameLess(a, b) ==
    \E k \in 1..Len(b) :
        /\ Len(a) >= k - 1
        /\ SubSeq(a, 1, k - 1) = SubSeq(b, 1, k - 1)
        /\ (Len(a) = k - 1 \/ Ord(a[k]) < Ord(b[k]))

RECURSIVE SortNamesDescending(_)
\* the names from the greatest down
SortNamesDescending(S) ==
    IF S = {} THEN << >>
    ELSE LET most == CHOOSE a \in S : \A b \in S \ {a} : NameLess(b, a)
         IN  <<most>> \o SortNamesDescending(S \ {most})

RECURSIVE SortNames(_)
\* sorted(os.scandir(current_path), key=lambda e: e.name), as names
SortNames(S) ==
    IF S = {} THEN << >>
    ELSE LET least == CHOOSE a \in S : \A b \in S \ {a} : NameLess(a, b)
         IN  <<least>> \o SortNames(S \ {least})

ChildNames(f, d) == {p[Len(p)] : p \in {q \in Entries(f) : Len(q) = Len(d) + 1 /\ IsPrefix(d, q)}}

RECURSIVE ScanRecursive(_, _, _)
\* _scan_recursive(current_path, relative_path); children << >> stands for None
ScanRecursive(f, current_path, relative_path) ==
    IF IsDir(f, current_path)
    THEN LET names == SortNames(ChildNames(f, current_path))
         IN  [id |-> relative_path, name |-> current_path[Len(current_path)],
              type |-> "folder", relative_path |-> relative_path, size |-> -1,
              children |-> [i \in DOMAIN names |->
                   ScanRecursive(f, Append(current_path, names[i]),
                                 Append(relative_path, names[i]))]]
    ELSE [id |-> relative_path, name |-> current_path[Len(current_path)],
          type |-> "file", relative_path |-> relative_path,
          size |-> f.files[current_path], children |-> << >>]

\* scan_tree of a root that is a directory (a missing root raises FileNotFoundError)
scan_tree(f, root_path) == ScanRecursive(f, root_path, <<DotSeg>>)

----------------------------------------------------------------------------
(* filesystem.py remove_empty_folders                                      *)

\* get_depth of remove_empty_folders: segments that are neither "" nor "."
prune_depth(p) == Cardinality({i \in DOMAIN p : p[i] # EmptySeg /\ p[i] # DotSeg})

RECURSIVE PruneSortFrom(_, _)
PruneSortFrom(paths, d) ==
    IF d < 0 THEN << >>
    ELSE SelectSeq(paths, LAMBDA p : prune_depth(p) = d) \o PruneSortFrom(paths, d - 1)

sorted_paths(paths) ==
    IF paths = << >> THEN << >>
    ELSE PruneSortFrom(paths, Max({prune_depth(paths[i]) : i \in DOMAIN paths}))

\* remove_folder_if_empty would call os.rmdir on relative_path
WouldRemove(f, p) ==
    /\ p # <<DotSeg>>
    /\ get_absolute_path(p) \in f.dirs
    /\ IsEmptyDir(f, get_absolute_path(p))

\* os.rmdir raises OSError (caught, logged)
RmdirFails(vol) == vol = "readonly"

Rmdir(f, d) == [f EXCEPT !.dirs = @ \ {d}]

RECURSIVE RemoveListed(_, _, _, _)
\* the loop over sorted_paths: [raised, fs, removed]; raised is the ValueError
\* of get_absolute_path, which ends the call
RemoveListed(f, paths, vol, removed) ==
    IF paths = << >> THEN [raised |-> FALSE, fs |-> f, removed |-> removed]
    ELSE LET p == Head(paths) IN
         IF p # <<DotSeg>> /\ ~ validate_path(p)
         THEN [raised |-> TRUE, fs |-> f, removed |-> removed]
         ELSE IF WouldRemove(f, p) /\ ~ RmdirFails(vol)
              THEN RemoveListed(Rmdir(f, get_absolute_path(p)), Tail(paths), vol,
                                Append(removed, p))
              ELSE RemoveListed(f, Tail(paths), vol, removed)

RECURSIVE FindAndRemoveEmptyParentFirst(_, _, _, _, _)
\* a scan that tries the directory before its sub-directories
FindAndRemoveEmptyParentFirst(f, current_abs, current_relative, vol, removed) ==
    IF ~ IsDir(f, current_abs) THEN [raised |-> FALSE, fs |-> f, removed |-> removed]
    ELSE IF /\ current_relative # <<DotSeg>>
            /\ WouldRemove(f, current_relative) /\ ~ RmdirFails(vol)
    THEN [raised |-> FALSE, fs |-> Rmdir(f, current_abs),
          removed |-> Append(removed, current_relative)]
    ELSE LET names == SortNames({n \in ChildNames(f, current_abs) :
                                    IsDir(f, Append(current_abs, n))})
             RECURSIVE Children(_, _)
             Children(i, acc) ==
                 IF i > Len(names) THEN acc
                 ELSE Children(i + 1,
                               FindAndRemoveEmptyParentFirst(
                                   acc.fs, Append(current_abs, names[i]),
                                   Append(current_relative, names[i]), vol, acc.removed))
         IN  Children(1, [raised |-> FALSE, fs |-> f, removed |-> removed])

RECURSIVE FindAndRemoveEmpty(_, _, _, _, _)
\* find_and_remove_empty(current_abs, current_relative): the sub-directories first
\* (os.scandir gives them in an order of its own; the model takes them by name),
\* then the directory itself unless it is "."
FindAndRemoveEmpty(f, current_abs, current_relative, vol, removed) ==
    IF ~ IsDir(f, current_abs) THEN [raised |-> FALSE, fs |-> f, removed |-> removed]
    ELSE LET names == SortNames({n \in ChildNames(f, current_abs) :
                                    IsDir(f, Append(current_abs, n))})
             RECURSIVE Children(_, _)
             Children(i, acc) ==
                 IF i > Len(names) THEN acc
                 ELSE Children(i + 1,
                               FindAndRemoveEmpty(acc.fs, Append(current_abs, names[i]),
                                                  Append(current_relative, names[i]),
                                                  vol, acc.removed))
             below == Children(1, [raised |-> FALSE, fs |-> f, removed |-> removed])
         IN  IF /\ current_relative # <<DotSeg>>
                /\ WouldRemove(below.fs, current_relative) /\ ~ RmdirFails(vol)
             THEN [raised |-> FALSE, fs |-> Rmdir(below.fs, current_abs),
                   removed |-> Append(below.removed, current_relative)]
             ELSE below

\* remove_empty_folders(folder_paths=...): << >> is None or [], both take the
\* full scan (`if folder_paths:`)
remove_empty_folders(f, folder_paths, vol) ==
    IF folder_paths # << >>
    THEN RemoveListed(f, sorted_paths(folder_paths), vol, << >>)
    ELSE FindAndRemoveEmpty(f, get_root_path, <<DotSeg>>, vol, << >>)

----------------------------------------------------------------------------
(* organize.py                                                             *)
Lower(c) == IF c = "T" THEN "t" ELSE c

\* Path(name).suffix: from the last dot, unless that dot is first or last
Suffix(name) ==
    LET dots == {i \in DOMAIN name : name[i] = "."}
    IN  IF dots = {} THEN << >>
        ELSE LET i == Max(dots)
             IN  IF 1 < i /\ i < Len(name) THEN SubSeq(name, i, Len(name)) ELSE << >>

get_file_extension(name) ==
    LET ext == [i \in DOMAIN Suffix(name) |-> Lower(Suffix(name)[i])]
    IN  IF ext # << >> THEN Tail(ext) ELSE NoExtension

RECURSIVE StripEmpty(_)
StripEmpty(p) == IF p # << >> /\ p[Len(p)] = EmptySeg THEN StripEmpty(Front(p)) ELSE p

\* os.path.dirname on the split form of a string
Dirname(p) ==
    IF Len(p) = 1 THEN <<EmptySeg>>
    ELSE IF \A i \in 1..(Len(p) - 1) : p[i] = EmptySeg THEN Append(Front(p), EmptySeg)
    ELSE StripEmpty(Front(p))

ExtensionFolderMaxLen == 10

is_extension_folder(name) ==
    /\ name = get_file_extension(name)
    /\ name # NoExtension
    /\ Len(name) <= ExtensionFolderMaxLen

RECURSIVE process_nodeFlat(_, _)
\* a planner that sends every file to <ext>/<name> below the root
process_nodeFlat(node, base_path) ==
    IF node.type = "file"
    THEN LET target_path == <<get_file_extension(node.name), node.name>>
         IN  IF Dirname(node.relative_path) # Dirname(target_path)
             THEN <<Move(node.relative_path, target_path)>> ELSE << >>
    ELSE LET RECURSIVE Over(_)
             Over(i) == IF i > Len(node.children) THEN << >>
                        ELSE process_nodeFlat(node.children[i], node.relative_path)
                             \o Over(i + 1)
         IN  Over(1)

RECURSIVE process_node(_, _)
\* the moves process_node(node, base_path) appends, in order
process_node(node, base_path) ==
    IF node.type = "file"
    THEN LET ext == get_file_extension(node.name)
             target_path == IF base_path = <<DotSeg>> THEN <<ext, node.name>>
                            ELSE base_path \o <<ext, node.name>>
             current_dir == IF node.relative_path # <<node.name>>
                            THEN Dirname(node.relative_path) ELSE <<DotSeg>>
             target_dir == Dirname(target_path)
         IN  IF current_dir # target_dir THEN <<Move(node.relative_path, target_path)>>
             ELSE << >>
    ELSE IF node.children # << >> /\ ~ is_extension_folder(node.name)
         THEN LET RECURSIVE Over(_)
                  Over(i) == IF i > Len(node.children) THEN << >>
                             ELSE process_node(node.children[i], node.relative_path)
                                  \o Over(i + 1)
              IN  Over(1)
         ELSE << >>

organize_by_file_type(f, root_path) ==
    LET tree == scan_tree(f, root_path)
        RECURSIVE Top(_)
        Top(i) == IF i > Len(tree.children) THEN << >>
                  ELSE process_node(tree.children[i], <<DotSeg>>) \o Top(i + 1)
    IN  Top(1)

----------------------------------------------------------------------------
(* The initial disk and the requests a client sends.                       *)
MaxCalls == 3

MaxScanCalls == 2

MaxPruneCalls == 2

MaxRootCalls == 3

MaxTasks == 2

Volumes == {"same", "other", "readonly"}

InitFs ==
    [dirs |-> {<<nRoot>>, <<nRoot, nA>>, <<nRoot, nE>>},
     files |-> (<<nRoot, nA, nF>> :> 1) @@ (<<nRoot, nA, nG>> :> 2) @@ (<<nRoot, nH>> :> 3)]

\* Scenario B of the specification: the root holds file1.txt and song.mp3
ScenarioB ==
    [dirs |-> {<<nRoot>>},
     files |-> (<<nRoot, nFile1>> :> 3) @@ (<<nRoot, nSong>> :> 1)]

\* the disks a run may start from
InitDisks == {InitFs, ScenarioB}

BatchPool ==
    { << >>,
      <<Move(<<nH>>, <<nN, nM, nH>>)>>,
      <<Move(<<nH>>, <<nE, nH>>)>>,
      <<Move(<<nA>>, <<nX>>), Move(<<nA, nF>>, <<nN, nY>>)>>,
      <<Move(<<nH>>, <<nA, nF>>)>>,
      <<Move(<<nH>>, <<nA, nF>>), Move(<<nH>>, <<nX>>)>>,
      <<Move(<<nA>>, <<nA, nN, nM>>), Move(<<nH>>, <<nX>>)>>,
      <<Move(<<nH>>, <<nX>>), Move(<<DotDotSeg, nX>>, <<nY>>)>>,
      <<Move(<<nA, nF>>, <<EmptySeg, nA>>), Move(<<nH>>, <<nX>>)>>,
      <<Move(<<nQ>>, <<nX>>), Move(<<nH>>, <<nY>>)>>,
      <<Move(<<nH>>, <<nX>>), Move(<<nX>>, <<nY>>)>>,
      <<Move(<<nH>>, <<nA, nG, nX>>)>>,
      <<Move(<<EmptySeg>>, <<nX>>)>>,
      <<Move(<<nA, nG>>, <<nE, nG>>)>> }

\* a client may also post the plan it was given for the current disk
Requests ==
    BatchPool \cup (IF IsDir(fs, get_root_path)
                    THEN {organize_by_file_type(fs, get_root_path)} ELSE {})

\* a root below which every directory is empty
NestedEmpty == [dirs |-> {<<nRoot>>, <<nRoot, nE>>, <<nRoot, nE, nN>>}, files |-> << >>]

\* the initial disk with an empty directory n inside e
NestedBesideFiles == [InitFs EXCEPT !.dirs = @ \cup {<<nRoot, nE, nN>>}]

PruneDisks == {InitFs, NestedEmpty, NestedBesideFiles}

\* the folder_paths a caller of remove_empty_folders passes: the empty list, ".",
\* "", "./", the three of "h.T", "a" and "e", and "a" with "e/n"
FolderPool ==
    { << >>, << <<DotSeg>> >>, << <<EmptySeg>> >>, << <<DotSeg, EmptySeg>> >>,
      << <<nH>>, <<nA>>, <<nE>> >>, << <<nA>>, <<nE, nN>> >> }

\* the root_path a client posts to /set-root-path: "/r/a", "/r/h.T" (a file),
\* "/r/q" (missing), "e" and "" (relative to the working directory), "/r/a/../e/"
\* and "/r"
RootPool ==
    { <<EmptySeg, nRoot, nA>>, <<EmptySeg, nRoot, nH>>, <<EmptySeg, nRoot, nQ>>,
      <<nE>>, <<EmptySeg>>, <<EmptySeg, nRoot, nA, DotDotSeg, nE, EmptySeg>>,
      <<EmptySeg, nRoot>> }

NoCall == [before |-> InitFs, steps |-> << >>, volume |-> "same", root |-> DefaultRoot]

\* what is remembered of a handler call: request, response, and the state it started in
Call(op, moves, dry_run, volume, r, undone) ==
    [op |-> op, moves |-> moves, dry_run |-> dry_run, outcome |-> r.outcome,
     steps |-> r.steps, removed |-> r.removed, volume |-> volume, undone |-> undone,
     pre |-> [fs |-> fs, move_history |-> move_history, root |-> get_root_path]]

\* a request that has not arrived
NoTask ==
    [st |-> "none", op |-> "none", moves |-> << >>, volume |-> "same", todo |-> << >>,
     steps |-> << >>, history |-> << >>, concurrent |-> FALSE]

\* no handler running, no request received
IdleLoop == [running |-> 0, task |-> [t \in 1..MaxTasks |-> NoTask], log |-> << >>]

Start(disks) ==
    /\ loop = IdleLoop
    /\ fs \in disks
    /\ move_history = << >>
    /\ calls = 0
    /\ applied = << >>
    /\ runtime_root_path = NoRuntimeRoot
    /\ last = [op |-> "init", moves |-> << >>, dry_run |-> FALSE, outcome |-> "none",
               steps |-> << >>, removed |-> << >>, volume |-> "same", undone |-> NoCall,
               pre |-> [fs |-> fs, move_history |-> << >>, root |-> DefaultRoot]]

Init == Start(InitDisks)

InitPrune == Start(PruneDisks)

----------------------------------------------------------------------------
(* main.py                                                                 *)
Moved(r) == r.status \in {"moved", "moved_fallback"}

Failed(r) == r.status = "error"

AsMoves(steps) == [i \in DOMAIN steps |-> Move(steps[i].from_path, steps[i].to_path)]

\* a history that records every result, moved or not
every_result(steps) == AsMoves(steps)

\* a history that records the skipped items with the moved ones
moved_and_skipped(steps) == AsMoves(SelectSeq(steps, LAMBDA r : ~ Failed(r)))

\* successful_moves of apply_file_moves
successful_moves(steps) == AsMoves(SelectSeq(steps, Moved))

\* the state and the response apply_file_moves leaves
ApplyResult(f, history, moves, dry_run, vol) ==
    LET res == apply_moves(f, moves, dry_run, vol)
    IN  IF res.raised
        THEN [fs |-> f, move_history |-> history, outcome |-> "InvalidPath",
              steps |-> << >>, removed |-> << >>]
        ELSE [fs |-> FinalFs(f, res.steps),
              move_history |-> IF ~ dry_run /\ successful_moves(res.steps) # << >>
                               THEN Append(history, successful_moves(res.steps))
                               ELSE history,
              outcome |-> "ok", steps |-> res.steps, removed |-> << >>]

\* POST /apply-moves
apply_file_moves(moves, dry_run, volume) ==
    /\ calls < MaxCalls
    /\ \E r \in {ApplyResult(fs, move_history, moves, dry_run, volume)} :
           /\ fs' = r.fs
           /\ move_history' = r.move_history
           /\ last' = Call("apply", moves, dry_run, volume, r, NoCall)
           /\ applied' = IF Len(r.move_history) > Len(move_history)
                         THEN Append(applied, [before |-> fs, steps |-> r.steps,
                                               volume |-> volume,
                                               root |-> get_root_path])
                         ELSE applied
    /\ calls' = calls + 1
    /\ UNCHANGED <<runtime_root_path, loop>>

\* the lists a Python set of the given strings can be turned into
Orders(S) ==
    {s \in [1..Cardinality(S) -> S] : \A i, j \in DOMAIN s : i # j => s[i] # s[j]}

\* folder_paths_to_check: the parent string of every to_path that has a "/"
folder_paths_to_check(batch) ==
    {Front(batch[i].to_path) :
        i \in {j \in DOMAIN batch :
                 Len(batch[j].to_path) >= 2 /\ Front(batch[j].to_path) # <<EmptySeg>>}}

reversed_moves(batch) ==
    [i \in DOMAIN batch |-> Move(batch[i].to_path, batch[i].from_path)]

\* an undo that reports success when there is nothing to undo
UndoEmptySucceeds(f, history) ==
    [fs |-> f, move_history |-> history, outcome |-> "ok",
     steps |-> << >>, removed |-> << >>]

\* undo_last_moves with nothing on the stack: HTTP 404
UndoEmpty(f, history) ==
    [fs |-> f, move_history |-> history, outcome |-> "NoHistory",
     steps |-> << >>, removed |-> << >>]

\* a failed undo that drops the popped batch
NoRepush(popped, last_moves) == popped

\* the stack a failed undo leaves: move_history.append(last_moves)
Repush(popped, last_moves) == Append(popped, last_moves)

\* an undo that takes the oldest batch of the stack
UndoResultOldestFirst(f, history, vol, order) ==
    IF history = << >> THEN UndoEmpty(f, history)
    ELSE LET last_moves == history[1]
             popped == Tail(history)
             res == apply_moves(f, reversed_moves(last_moves), FALSE, vol)
             after == FinalFs(f, res.steps)
             pruned == IF order = << >>
                       THEN [raised |-> FALSE, fs |-> after, removed |-> << >>]
                       ELSE remove_empty_folders(after, order, vol)
         IN  IF res.raised
             THEN [fs |-> f, move_history |-> popped, outcome |-> "Error",
                   steps |-> << >>, removed |-> << >>]
             ELSE IF SelectSeq(res.steps, Failed) # << >>
             THEN [fs |-> after, move_history |-> <<last_moves>> \o popped,
                   outcome |-> "UndoFailed", steps |-> res.steps, removed |-> << >>]
             ELSE [fs |-> pruned.fs, move_history |-> popped, outcome |-> "ok",
                   steps |-> res.steps, removed |-> pruned.removed]

\* an undo that takes a skipped item for a failed one
UndoResultSkipFails(f, history, vol, order) ==
    IF history = << >> THEN UndoEmpty(f, history)
    ELSE LET last_moves == history[Len(history)]
             popped == Front(history)
             res == apply_moves(f, reversed_moves(last_moves), FALSE, vol)
             after == FinalFs(f, res.steps)
             pruned == IF order = << >>
                       THEN [raised |-> FALSE, fs |-> after, removed |-> << >>]
                       ELSE remove_empty_folders(after, order, vol)
         IN  IF res.raised
             THEN [fs |-> f, move_history |-> popped, outcome |-> "Error",
                   steps |-> << >>, removed |-> << >>]
             ELSE IF SelectSeq(res.steps, LAMBDA r : ~ Moved(r)) # << >>
             THEN [fs |-> after, move_history |-> Repush(popped, last_moves),
                   outcome |-> "UndoFailed", steps |-> res.steps, removed |-> << >>]
             ELSE [fs |-> pruned.fs, move_history |-> popped, outcome |-> "ok",
                   steps |-> res.steps, removed |-> pruned.removed]

\* the state and the response undo_last_moves leaves; order is list(folder_paths_to_check)
UndoResult(f, history, vol, order) ==
    IF history = << >> THEN UndoEmpty(f, history)
    ELSE LET last_moves == history[Len(history)]
             popped == Front(history)
             res == apply_moves(f, reversed_moves(last_moves), FALSE, vol)
             after == FinalFs(f, res.steps)
             pruned == IF order = << >>
                       THEN [raised |-> FALSE, fs |-> after, removed |-> << >>]
                       ELSE remove_empty_folders(after, order, vol)
         IN  IF res.raised
             THEN [fs |-> f, move_history |-> popped, outcome |-> "Error",
                   steps |-> << >>, removed |-> << >>]
             ELSE IF SelectSeq(res.steps, Failed) # << >>
             THEN [fs |-> after, move_history |-> Repush(popped, last_moves),
                   outcome |-> "UndoFailed", steps |-> res.steps, removed |-> << >>]
             ELSE [fs |-> pruned.fs, move_history |-> popped, outcome |-> "ok",
                   steps |-> res.steps, removed |-> pruned.removed]

Top(s) == s[Len(s)]

\* POST /undo
undo_last_moves(volume) ==
    /\ calls < MaxCalls
    /\ \E order \in IF move_history = << >> THEN {<< >>}
                    ELSE Orders(folder_paths_to_check(Top(move_history))) :
          \E r \in {UndoResult(fs, move_history, volume, order)} :
              /\ fs' = r.fs
              /\ move_history' = r.move_history
              /\ last' = Call("undo", IF move_history = << >> THEN << >>
                                      ELSE Top(move_history), FALSE, volume, r,
                              IF applied = << >> THEN NoCall ELSE Top(applied))
              /\ applied' = IF Len(r.move_history) < Len(move_history)
                            THEN Front(applied) ELSE applied
    /\ calls' = calls + 1
    /\ UNCHANGED <<runtime_root_path, loop>>

NoTree == [type |-> "none"]

\* what is remembered of a handler call that only reads the disk
Reply(op, outcome, tree, moves) ==
    [op |-> op, moves |-> moves, dry_run |-> FALSE, outcome |-> outcome,
     steps |-> << >>, removed |-> << >>, volume |-> "same", undone |-> NoCall,
     pre |-> [fs |-> fs, move_history |-> move_history, root |-> get_root_path],
     tree |-> tree]

\* GET /tree
get_tree ==
    /\ last' = IF IsDir(fs, get_root_path)
                THEN Reply("tree", "ok", scan_tree(fs, get_root_path), << >>)
                ELSE Reply("tree", "NotFound", NoTree, << >>)
    /\ UNCHANGED <<fs, move_history, calls, applied, runtime_root_path, loop>>

\* POST /organize-by-type, the request naming no root_path
organize_files_by_type ==
    /\ last' = IF IsDir(fs, get_root_path)
                THEN Reply("organize", "ok", scan_tree(fs, get_root_path),
                           organize_by_file_type(fs, get_root_path))
                ELSE Reply("organize", "NotFound", NoTree, << >>)
    /\ UNCHANGED <<fs, move_history, calls, applied, runtime_root_path, loop>>

\* volume is how the OS answers during the call: "same" (renames work), "other"
\* (os.rename raises, the copy works), "readonly" (every write raises); a dry run
\* asks the OS for no write
Next ==
    \/ \E moves \in Requests, dry_run \in BOOLEAN :
          \E volume \in IF dry_run THEN {"same"} ELSE Volumes :
             apply_file_moves(moves, dry_run, volume)
    \/ \E volume \in Volumes : undo_last_moves(volume)

Spec == Init /\ [][Next]_vars

\* a set_root_path that takes any path
set_root_pathUnchecked(f, runtime, path) ==
    [ret |-> TRUE, runtime_root_path |-> [set |-> TRUE, path |-> abspath(path)]]

\* config.py set_root_path on disk f: the value returned and _runtime_root_path after
set_root_path(f, runtime, path) ==
    LET abs_path == abspath(path)
    IN  IF Exists(f, abs_path) /\ IsDir(f, abs_path)
        THEN [ret |-> TRUE, runtime_root_path |-> [set |-> TRUE, path |-> abs_path]]
        ELSE [ret |-> FALSE, runtime_root_path |-> runtime]

\* a handler that empties the undo stack whenever it is called
set_root_directoryClearsHistory(root_path) ==
    /\ calls < MaxCalls
    /\ \E r \in {set_root_path(fs, runtime_root_path, root_path)} :
           /\ runtime_root_path' = r.runtime_root_path
           /\ last' = [op |-> "set_root", moves |-> << >>, dry_run |-> FALSE,
                       outcome |-> IF r.ret THEN "ok" ELSE "Error",
                       steps |-> << >>, removed |-> << >>, volume |-> "same",
                       undone |-> NoCall,
                       pre |-> [fs |-> fs, move_history |-> move_history,
                               root |-> get_root_path],
                       root_path |-> root_path, ret |-> r.ret]
    /\ calls' = calls + 1
    /\ move_history' = << >>
    /\ applied' = << >>
    /\ UNCHANGED <<fs, loop>>

\* POST /set-root-path; the HTTPException(400) of a refused path is caught by the
\* handler's own except Exception and answered as 500
set_root_directory(root_path) ==
    /\ calls < MaxCalls
    /\ \E r \in {set_root_path(fs, runtime_root_path, root_path)} :
           /\ runtime_root_path' = r.runtime_root_path
           /\ last' = [op |-> "set_root", moves |-> << >>, dry_run |-> FALSE,
                       outcome |-> IF r.ret THEN "ok" ELSE "Error",
                       steps |-> << >>, removed |-> << >>, volume |-> "same",
                       undone |-> NoCall,
                       pre |-> [fs |-> fs, move_history |-> move_history,
                               root |-> get_root_path],
                       root_path |-> root_path, ret |-> r.ret]
    /\ calls' = calls + 1
    /\ UNCHANGED <<fs, move_history, applied, loop>>

\* the root changed between at most MaxRootCalls calls in all
NextRoot ==
    \/ /\ calls < MaxRootCalls
       /\ \E root_path \in RootPool : set_root_directory(root_path)
    \/ /\ calls < MaxRootCalls
       /\ \E moves \in Requests, volume \in {"same", "readonly"} :
              apply_file_moves(moves, FALSE, volume)
    \/ /\ calls < MaxRootCalls
       /\ \E volume \in {"same", "readonly"} : undo_last_moves(volume)

SpecRoot == Init /\ [][NextRoot]_vars

\* handlers that await inside the loop over the items
AwaitWhileMoving == {"moving"}

\* the positions of the apply and undo handlers at which the coroutine awaits and
\* the event loop may run another task: the bodies hold no await
AwaitPoints == {}

\* the batches of the requests that arrive together
LoopPool ==
    { <<Move(<<nH>>, <<nX>>)>>,
      <<Move(<<nA, nG>>, <<nE, nG>>), Move(<<nA, nF>>, <<nY>>)>>,
      <<Move(<<nH>>, <<nN, nH>>), Move(<<DotDotSeg>>, <<nX>>)>> }

\* the state a real apply of [h.T -> n/m/h.T, a/g -> n/g] to the initial disk leaves
Recorded ==
    ApplyResult(InitFs, << >>,
                <<Move(<<nH>>, <<nN, nM, nH>>), Move(<<nA, nG>>, <<nN, nG>>)>>, FALSE, "same")

\* the server idle, on the initial disk or with one batch recorded
InitLoopState ==
    /\ runtime_root_path = NoRuntimeRoot
    /\ loop = IdleLoop
    /\ \E st \in {[fs |-> InitFs, move_history |-> << >>],
                   [fs |-> Recorded.fs, move_history |-> Recorded.move_history]} :
          /\ fs = st.fs
          /\ move_history = st.move_history
          /\ last = [op |-> "init", moves |-> << >>, dry_run |-> FALSE,
                     outcome |-> "none", steps |-> << >>, removed |-> << >>,
                     volume |-> "same", undone |-> NoCall,
                     pre |-> [fs |-> st.fs, move_history |-> st.move_history,
                             root |-> DefaultRoot]]
    /\ calls = 0
    /\ applied = << >>

\* the event loop gives task t a turn: it is free, or t holds it
Turn(t) == loop.running \in {0, t}

\* who holds the loop after task t reached position st: t, unless the handler
\* returned or awaits there
Holder(t, st) == IF st = "done" \/ st \in AwaitPoints THEN 0 ELSE t

\* a request arrives, at any time
Receive(t, op, moves, volume) ==
    /\ loop.task[t].st = "none"
    /\ loop' = [loop EXCEPT !.task[t] =
                   [NoTask EXCEPT !.st = "pending", !.op = op, !.moves = moves,
                                  !.volume = volume,
                                  !.concurrent = (loop.running # 0)]]
    /\ UNCHANGED <<fs, move_history, calls, last, applied, runtime_root_path>>

\* undo_last_moves up to the call of apply_moves: 404, or the pop (main.py 217-228)
BeginUndo(t) ==
    /\ Turn(t) /\ loop.task[t].st = "pending" /\ loop.task[t].op = "undo"
    /\ IF move_history = << >>
       THEN /\ loop' = [loop EXCEPT !.running = Holder(t, "done"),
                                    !.task[t].st = "done"]
            /\ UNCHANGED move_history
       ELSE /\ move_history' = Front(move_history)
            /\ loop' = [loop EXCEPT !.running = Holder(t, "moving"),
                                    !.task[t].st = "moving",
                                    !.task[t].moves = Top(move_history),
                                    !.task[t].history = move_history,
                                    !.task[t].todo =
                                        sorted_moves(reversed_moves(Top(move_history)))]
    /\ UNCHANGED <<fs, calls, last, applied, runtime_root_path>>

\* apply_file_moves up to the loop of apply_moves: the validation
BeginApply(t) ==
    /\ Turn(t) /\ loop.task[t].st = "pending" /\ loop.task[t].op = "apply"
    /\ loop' = IF ~ AllValid(loop.task[t].moves)
               THEN [loop EXCEPT !.running = Holder(t, "done"), !.task[t].st = "done"]
               ELSE [loop EXCEPT !.running = Holder(t, "moving"),
                                 !.task[t].st = "moving",
                                 !.task[t].history = move_history,
                                 !.task[t].todo = sorted_moves(loop.task[t].moves)]
    /\ UNCHANGED <<fs, move_history, calls, last, applied, runtime_root_path>>

\* one iteration of the loop of apply_moves, for either handler
Item(t) ==
    /\ Turn(t) /\ loop.task[t].st = "moving" /\ loop.task[t].todo # << >>
    /\ \E r \in {MoveOne(fs, Head(loop.task[t].todo), FALSE, loop.task[t].volume)} :
           /\ fs' = r.fs
           /\ loop' = [loop EXCEPT !.running = Holder(t, "moving"),
                                   !.task[t].todo = Tail(@),
                                   !.task[t].steps = Append(@, r),
                                   !.log = IF r.fs # fs THEN Append(@, t) ELSE @]
    /\ UNCHANGED <<move_history, calls, last, applied, runtime_root_path>>

\* apply_file_moves after apply_moves: the push (main.py 184-194)
EndApply(t) ==
    /\ Turn(t) /\ loop.task[t].st = "moving" /\ loop.task[t].todo = << >>
    /\ loop.task[t].op = "apply"
    /\ move_history' = IF successful_moves(loop.task[t].steps) # << >>
                       THEN Append(move_history, successful_moves(loop.task[t].steps))
                       ELSE move_history
    /\ loop' = [loop EXCEPT !.running = Holder(t, "done"), !.task[t].st = "done"]
    /\ UNCHANGED <<fs, calls, last, applied, runtime_root_path>>

\* undo_last_moves after apply_moves: the re-push, or the pruning (main.py 236-286)
EndUndo(t) ==
    /\ Turn(t) /\ loop.task[t].st = "moving" /\ loop.task[t].todo = << >>
    /\ loop.task[t].op = "undo"
    /\ IF SelectSeq(loop.task[t].steps, Failed) # << >>
       THEN /\ move_history' = Repush(move_history, loop.task[t].moves)
            /\ loop' = [loop EXCEPT !.running = Holder(t, "done"),
                                    !.task[t].st = "done"]
            /\ UNCHANGED fs
       ELSE \E order \in Orders(folder_paths_to_check(loop.task[t].moves)) :
              \E pruned \in {IF order = << >>
                              THEN [raised |-> FALSE, fs |-> fs, removed |-> << >>]
                              ELSE remove_empty_folders(fs, order, loop.task[t].volume)} :
                 /\ fs' = pruned.fs
                 /\ loop' = [loop EXCEPT !.running = Holder(t, "done"),
                                         !.task[t].st = "done",
                                         !.log = IF pruned.fs # fs THEN Append(@, t)
                                                 ELSE @]
                 /\ UNCHANGED move_history
    /\ UNCHANGED <<calls, last, applied, runtime_root_path>>

\* requests to /apply-moves and /undo arriving while handlers run
NextLoop ==
    \/ \E t \in 1..MaxTasks, moves \in LoopPool, volume \in {"same", "readonly"} :
          Receive(t, "apply", moves, volume)
    \/ \E t \in 1..MaxTasks, volume \in {"same", "readonly"} :
          Receive(t, "undo", << >>, volume)
    \/ \E t \in 1..MaxTasks : BeginUndo(t)
    \/ \E t \in 1..MaxTasks : BeginApply(t)
    \/ \E t \in 1..MaxTasks : Item(t)
    \/ \E t \in 1..MaxTasks : EndApply(t)
    \/ \E t \in 1..MaxTasks : EndUndo(t)

SpecLoop == InitLoopState /\ [][NextLoop]_vars

\* a call of remove_empty_folders by a user of the module; given tells whether
\* the caller passed folder_paths (<< >> is then the empty list)
PruneCall(given, folder_paths, volume) ==
    /\ calls < MaxCalls
    /\ \E r \in {remove_empty_folders(fs, folder_paths, volume)} :
           /\ fs' = r.fs
           /\ last' = [op |-> "prune", moves |-> << >>, dry_run |-> FALSE,
                       outcome |-> IF r.raised THEN "Error" ELSE "ok",
                       steps |-> << >>, removed |-> r.removed, volume |-> volume,
                       undone |-> NoCall,
                       pre |-> [fs |-> fs, move_history |-> move_history,
                               root |-> get_root_path],
                       folder_paths |-> folder_paths, given |-> given]
    /\ calls' = calls + 1
    /\ UNCHANGED <<move_history, applied, runtime_root_path, loop>>

\* remove_empty_folders(folder_paths=folder_paths)
prune(folder_paths, volume) == PruneCall(TRUE, folder_paths, volume)

\* remove_empty_folders()
prune_all(volume) == PruneCall(FALSE, << >>, volume)

\* the pruner called directly, between at most MaxPruneCalls calls in all
NextPrune ==
    \/ /\ calls < MaxPruneCalls
       /\ \E moves \in Requests, dry_run \in BOOLEAN :
              \E volume \in IF dry_run THEN {"same"} ELSE Volumes :
                 apply_file_moves(moves, dry_run, volume)
    \/ /\ calls < MaxPruneCalls
       /\ \E volume \in Volumes : undo_last_moves(volume)
    \/ /\ calls < MaxPruneCalls
       /\ \E folder_paths \in FolderPool, volume \in {"same", "readonly"} :
              prune(folder_paths, volume)
    \/ /\ calls < MaxPruneCalls
       /\ \E volume \in {"same", "readonly"} : prune_all(volume)

SpecPrune == InitPrune /\ [][NextPrune]_vars

\* the handlers that read the disk, called after at most MaxScanCalls calls of
\* the handlers that change it
NextScan ==
    \/ /\ calls < MaxScanCalls
       /\ \E moves \in Requests, volume \in Volumes : apply_file_moves(moves, FALSE, volume)
    \/ /\ calls < MaxScanCalls
       /\ \E volume \in Volumes : undo_last_moves(volume)
    \/ get_tree
    \/ organize_files_by_type

SpecScan == Init /\ [][NextScan]_vars

----------------------------------------------------------------------------
(* Vocabulary of the properties.  last.steps are the results of the last   *)
(* call in execution order, each with the disk as that item left it.       *)
Ran == last.op \in {"apply", "undo"} /\ last.outcome \in {"ok", "UndoFailed"}

\* the batch apply_moves was given by the last call
Input == IF last.op = "undo" THEN reversed_moves(last.moves) ELSE last.moves

\* the disk when item k of the last call was processed
Before(k) == IF k = 1 THEN last.pre.fs ELSE last.steps[k - 1].fs

FromAbs(k) == get_absolute_path(last.steps[k].from_path)

ToAbs(k) == get_absolute_path(last.steps[k].to_path)

\* the path has a ".." segment or a leading "/"
Escapes(p) == (\E i \in DOMAIN p : p[i] = DotDotSeg) \/ (Len(p) >= 2 /\ p[1] = << >>)

SegmentCount(p) == Len(SelectSeq(p, LAMBDA seg : seg # << >>))

\* what the disk holds at and below p, named relative to p
Subtree(f, p) ==
    [dirs |-> {SubSeq(q, Len(p) + 1, Len(q)) : q \in {d \in f.dirs : IsPrefix(p, d)}},
     files |-> {<<SubSeq(q, Len(p) + 1, Len(q)), f.files[q]>> :
                   q \in {d \in DOMAIN f.files : IsPrefix(p, d)}}]

IndexOrders(n) == {pi \in [1..n -> 1..n] : \A i, j \in 1..n : i # j => pi[i] # pi[j]}

----------------------------------------------------------------------------
(* C1: a path with a ".." segment or a leading "/" is rejected by          *)
(* validate_path, and an apply request holding one such path, as from_path *)
(* or to_path of any item, fails with InvalidPath before any item is       *)
(* processed: no result, the disk and the undo stack as before the call.   *)
C1_InvalidPathRejected ==
    last.op = "apply" =>
        \A i \in DOMAIN last.moves :
            \A p \in {last.moves[i].from_path, last.moves[i].to_path} :
                Escapes(p) =>
                    /\ ~ validate_path(p)
                    /\ last.outcome = "InvalidPath"
                    /\ last.steps = << >>
                    /\ fs = last.pre.fs
                    /\ move_history = last.pre.move_history

\* a real-mode batch rejected although one of its items could have been moved
C1_Witness ==
    /\ last.op = "apply" /\ ~ last.dry_run /\ last.outcome = "InvalidPath"
    /\ \E i, j \in DOMAIN last.moves :
          /\ Escapes(last.moves[i].to_path)
          /\ validate_path(last.moves[j].from_path) /\ validate_path(last.moves[j].to_path)
          /\ Exists(fs, get_absolute_path(last.moves[j].from_path))
          /\ ~ Exists(fs, get_absolute_path(last.moves[j].to_path))

(* C2: an item whose source and destination both exist when it is          *)
(* processed is skipped with reason destination_exists; the source is      *)
(* still there and the destination keeps its content, dry run or not.      *)
C2_CollisionSkips ==
    Ran => \A k \in DOMAIN last.steps :
              (Exists(Before(k), FromAbs(k)) /\ Exists(Before(k), ToAbs(k))) =>
                  /\ last.steps[k].status = "skip"
                  /\ last.steps[k].reason = "destination_exists"
                  /\ Exists(last.steps[k].fs, FromAbs(k))
                  /\ Subtree(last.steps[k].fs, ToAbs(k)) = Subtree(Before(k), ToAbs(k))
                  /\ last.steps[k].fs = Before(k)

\* a real-mode collision of two different files, followed by an item that is moved
C2_Witness ==
    /\ last.op = "apply" /\ ~ last.dry_run /\ Len(last.steps) = 2
    /\ last.steps[1].status = "skip"
    /\ IsFile(last.pre.fs, FromAbs(1)) /\ IsFile(last.pre.fs, ToAbs(1))
    /\ FromAbs(1) # ToAbs(1)
    /\ last.steps[2].status = "moved"

(* C3: a real apply of a valid batch without destination collision,        *)
(* recorded and directly followed by undo(), leaves exactly the            *)
(* (relativePath, size) file entries the disk had before the apply (the    *)
(* OS refusing nothing during either call).                                *)
UndoFollowsApply ==
    /\ last.op = "undo" /\ last.outcome \in {"ok", "UndoFailed"}
    /\ last.pre.fs = FinalFs(last.undone.before, last.undone.steps)
    /\ last.undone.volume = "same" /\ last.volume = "same"

C3_RoundTrip ==
    (UndoFollowsApply /\ \A k \in DOMAIN last.undone.steps :
                             last.undone.steps[k].status # "skip")
        => fs.files = last.undone.before.files

(* C4: after a real apply directly followed by a successful undo(), no     *)
(* directory that the apply created to host a moved item exists any more,  *)
(* at any level of the destination's parent chain.                         *)
C4_CreatedDirsRemoved ==
    (UndoFollowsApply /\ last.outcome = "ok") =>
        \A k \in DOMAIN last.undone.steps :
            Moved(last.undone.steps[k]) =>
                LET to_abs == get_absolute_path(last.undone.steps[k].to_path)
                IN  \A j \in 1..(Len(to_abs) - 1) :
                        SubSeq(to_abs, 1, j) \notin last.undone.before.dirs
                            => SubSeq(to_abs, 1, j) \notin fs.dirs

(* C5: when the organize-by-extension plan of a disk is applied for real   *)
(* and every item is moved, the plan computed on the resulting disk is     *)
(* empty.                                                                  *)
C5_PlanIdempotent ==
    ( /\ last.op = "apply" /\ ~ last.dry_run /\ last.outcome = "ok"
      /\ last.moves = organize_by_file_type(last.pre.fs, get_root_path)
      /\ \A k \in DOMAIN last.steps : Moved(last.steps[k]) )
        => organize_by_file_type(fs, get_root_path) = << >>

(* C6: the results of apply_moves are the items of the batch, one each, in *)
(* non-increasing depth of from_path (number of non-empty segments), items *)
(* of equal depth in their input order; each result describes the disk the *)
(* previous result left, so the list is in execution order.                *)
C6_DeepestFirst ==
    Ran =>
        /\ Len(last.steps) = Len(Input)
        /\ \E pi \in IndexOrders(Len(Input)) :
              /\ \A k \in DOMAIN last.steps : AsMoves(last.steps)[k] = Input[pi[k]]
              /\ \A k \in 1..(Len(Input) - 1) :
                    LET d1 == SegmentCount(Input[pi[k]].from_path)
                        d2 == SegmentCount(Input[pi[k + 1]].from_path)
                    IN  d1 > d2 \/ (d1 = d2 /\ pi[k] < pi[k + 1])
        /\ \A k \in DOMAIN last.steps :
              Moved(last.steps[k]) =>
                  /\ Exists(Before(k), FromAbs(k)) /\ ~ Exists(Before(k), ToAbs(k))
                  /\ ~ Exists(last.steps[k].fs, FromAbs(k))

\* the batch [a -> x, a/f.t -> n/y]: the entry inside a is moved first, then a
C6_Witness ==
    /\ last.op = "apply" /\ ~ last.dry_run
    /\ last.moves = <<Move(<<nA>>, <<nX>>), Move(<<nA, nF>>, <<nN, nY>>)>>
    /\ AsMoves(last.steps) = <<Move(<<nA, nF>>, <<nN, nY>>), Move(<<nA>>, <<nX>>)>>
    /\ \A k \in DOMAIN last.steps : last.steps[k].status = "moved"

(* C7: a dry run changes neither the disk (after any item) nor the undo    *)
(* stack, and every item whose source exists and whose destination does    *)
(* not gets dry_ok.                                                        *)
C7_DryRunPure ==
    (last.op = "apply" /\ last.dry_run) =>
        /\ fs = last.pre.fs
        /\ move_history = last.pre.move_history
        /\ last.outcome = "ok" => Len(last.steps) = Len(last.moves)
        /\ \A k \in DOMAIN last.steps :
              /\ last.steps[k].fs = last.pre.fs
              /\ (Exists(last.pre.fs, FromAbs(k)) /\ ~ Exists(last.pre.fs, ToAbs(k)))
                     => last.steps[k].status = "dry_ok"

\* a dry run of a move whose destination directories do not exist
C7_Witness ==
    /\ last.op = "apply" /\ last.dry_run
    /\ \E k \in DOMAIN last.steps :
          /\ last.steps[k].status = "dry_ok"
          /\ ~ Exists(fs, Front(ToAbs(k)))

(* C8, as stated: in real mode every item whose source exists and whose    *)
(* destination does not ends moved or moved_fallback, the source gone and  *)
(* the destination present (the OS refusing nothing).                      *)
C8_AlwaysMoved ==
    (Ran /\ ~ last.dry_run /\ last.volume = "same") =>
        \A k \in DOMAIN last.steps :
            (Exists(Before(k), FromAbs(k)) /\ ~ Exists(Before(k), ToAbs(k))) =>
                /\ Moved(last.steps[k])
                /\ ~ Exists(last.steps[k].fs, FromAbs(k))
                /\ Exists(last.steps[k].fs, ToAbs(k))

\* the move cannot be carried out: the disk refuses writes, the destination
\* lies inside the source, or a parent of the destination is a regular file
Blocked(k) ==
    \/ last.volume = "readonly"
    \/ IsPrefix(FromAbs(k), ToAbs(k))
    \/ \E j \in 1..(Len(ToAbs(k)) - 1) : IsFile(Before(k), SubSeq(ToAbs(k), 1, j))

(* C8, amended: in real mode an item whose source exists and whose         *)
(* destination does not ends error, no file moved, when the move cannot be *)
(* carried out; otherwise it ends moved (rename) or moved_fallback (copy), *)
(* the source is gone, the destination holds what the source held, every   *)
(* parent directory of the destination exists and nothing else changed.    *)
C8_RealMove ==
    (Ran /\ ~ last.dry_run) =>
        \A k \in DOMAIN last.steps :
            (Exists(Before(k), FromAbs(k)) /\ ~ Exists(Before(k), ToAbs(k))) =>
                IF Blocked(k)
                THEN /\ last.steps[k].status = "error"
                     /\ last.steps[k].fs.files = Before(k).files
                ELSE /\ last.steps[k].status =
                            (IF last.volume = "same" THEN "moved" ELSE "moved_fallback")
                     /\ ~ Exists(last.steps[k].fs, FromAbs(k))
                     /\ Subtree(last.steps[k].fs, ToAbs(k)) = Subtree(Before(k), FromAbs(k))
                     /\ \A j \in 1..(Len(ToAbs(k)) - 1) :
                            SubSeq(ToAbs(k), 1, j) \in last.steps[k].fs.dirs
                     /\ \A q \in Entries(Before(k)) :
                            ~ IsPrefix(FromAbs(k), q) =>
                                /\ q \in Entries(last.steps[k].fs)
                                /\ IsFile(Before(k), q) =>
                                       /\ IsFile(last.steps[k].fs, q)
                                       /\ last.steps[k].fs.files[q] = Before(k).files[q]

\* a file is moved below two levels of directories that did not exist
C8_Witness ==
    /\ Ran /\ ~ last.dry_run
    /\ \E k \in DOMAIN last.steps :
          /\ Moved(last.steps[k])
          /\ IsFile(Before(k), FromAbs(k))
          /\ ~ Exists(Before(k), Front(ToAbs(k)))
          /\ ~ Exists(Before(k), Front(Front(ToAbs(k))))
          /\ Exists(last.steps[k].fs, Front(ToAbs(k)))

(* C9: undo() on an empty stack fails with NoHistory; the disk is          *)
(* untouched and the stack stays empty.                                    *)
C9_UndoEmptyStack ==
    (last.op = "undo" /\ last.pre.move_history = << >>) =>
        /\ last.outcome = "NoHistory"
        /\ fs = last.pre.fs
        /\ move_history = << >>

\* undo called when a batch has been applied and undone already
C9_Witness ==
    /\ last.op = "undo" /\ last.outcome = "NoHistory"
    /\ calls = 3 /\ fs # InitFs

(* C10: when a reversed item ends error, undo() fails with UndoFailed and  *)
(* the stack is the stack of before the call: same batches, same order,    *)
(* the popped batch back on top.                                           *)
C10_FailedUndoRestoresStack ==
    (last.op = "undo" /\ \E k \in DOMAIN last.steps : Failed(last.steps[k])) =>
        /\ last.outcome = "UndoFailed"
        /\ move_history = last.pre.move_history

\* a failed undo of the top of a two-batch stack that had moved one item back
C10_Witness ==
    /\ last.op = "undo" /\ last.outcome = "UndoFailed"
    /\ Len(last.pre.move_history) = 2
    /\ last.pre.move_history[1] # last.pre.move_history[2]
    /\ \E k \in DOMAIN last.steps : Moved(last.steps[k])
    /\ fs # last.pre.fs

(* C12: an apply request pushes exactly one batch, the moved and           *)
(* moved_fallback items in result order, when dry_run is false and at      *)
(* least one result is moved or moved_fallback; a dry run, a real request  *)
(* none of whose items was moved (all skip or error, or an empty batch)    *)
(* and a request rejected with InvalidPath leave the stack as it was.      *)
C12_PushRule ==
    last.op = "apply" =>
        IF /\ ~ last.dry_run /\ last.outcome = "ok"
           /\ \E k \in DOMAIN last.steps : Moved(last.steps[k])
        THEN /\ Len(move_history) = Len(last.pre.move_history) + 1
             /\ Front(move_history) = last.pre.move_history
             /\ Top(move_history) = AsMoves(SelectSeq(last.steps, Moved))
        ELSE move_history = last.pre.move_history

\* a real request with one item skipped and one moved pushes onto a non-empty
\* stack; the batch pushed holds the moved item only
C12_Witness ==
    /\ last.op = "apply" /\ ~ last.dry_run /\ last.outcome = "ok"
    /\ last.pre.move_history # << >>
    /\ \E j, k \in DOMAIN last.steps :
          last.steps[j].status = "skip" /\ Moved(last.steps[k])
    /\ Len(Top(move_history)) < Len(last.steps)

\* how often the pair m occurs in a list of moves
Occurrences(moves, m) == Cardinality({i \in DOMAIN moves : moves[i] = m})

(* C15: for a batch that passes validation apply_moves returns one result  *)
(* per input item, with the item's from_path/to_path pair, and every item  *)
(* is attempted on the disk its predecessor left, whatever the predecessor *)
(* ended as: a missing source gives error, an existing destination skip,   *)
(* otherwise dry_ok in a dry run and, unless the move cannot be carried    *)
(* out, moved or moved_fallback in a real run.                             *)
C15_OneResultPerItem ==
    Ran =>
        /\ Len(last.steps) = Len(Input)
        /\ \A i \in DOMAIN Input :
              Occurrences(AsMoves(last.steps), Input[i]) = Occurrences(Input, Input[i])
        /\ \A k \in DOMAIN last.steps :
              last.steps[k].status =
                  IF ~ Exists(Before(k), FromAbs(k)) THEN "error"
                  ELSE IF Exists(Before(k), ToAbs(k)) THEN "skip"
                  ELSE IF last.dry_run THEN "dry_ok"
                  ELSE IF Blocked(k) THEN "error"
                  ELSE IF last.volume = "same" THEN "moved" ELSE "moved_fallback"

\* an error (missing source) or a skip is followed by an item that is moved
C15_Witness ==
    /\ last.op = "apply" /\ ~ last.dry_run /\ Len(last.steps) = 2
    /\ last.steps[1].status = "error" /\ last.steps[1].reason = "source_not_found"
    /\ Moved(last.steps[2])
    /\ fs # last.pre.fs

(* C18: an item whose source does not exist when it is processed ends      *)
(* error with reason source_not_found, whether or not its destination      *)
(* exists and whether or not the call is a dry run, and the disk is left   *)
(* as the item found it.                                                   *)
C18_SourceNotFoundFirst ==
    Ran => \A k \in DOMAIN last.steps :
              ~ Exists(Before(k), FromAbs(k)) =>
                  /\ last.steps[k].status = "error"
                  /\ last.steps[k].reason = "source_not_found"
                  /\ last.steps[k].fs = Before(k)

\* a dry run of an item whose source is gone and whose destination exists
C18_Witness ==
    /\ last.op = "apply" /\ last.dry_run
    /\ \E k \in DOMAIN last.steps :
          /\ ~ Exists(Before(k), FromAbs(k)) /\ Exists(Before(k), ToAbs(k))
          /\ last.steps[k].status = "error"

\* item k of the last call got as far as os.rename
RenameTried(k) ==
    /\ ~ last.dry_run
    /\ Exists(Before(k), FromAbs(k)) /\ ~ Exists(Before(k), ToAbs(k))
    /\ ~ MakedirsFails(Before(k), Front(ToAbs(k)), last.volume)

C20_DirsOnlyWithMove ==
    Ran => \A k \in DOMAIN last.steps :
              ~ Moved(last.steps[k]) => last.steps[k].fs.dirs = Before(k).dirs

(* C16, Scenario B: for a root that holds exactly the files file1.txt and   *)
(* song.mp3 the plan is the two items file1.txt -> txt/file1.txt and       *)
(* song.mp3 -> mp3/song.mp3, in that order, from_path without "./".        *)
C16_ScenarioB ==
    (last.op = "organize" /\ fs = ScenarioB) =>
        last.moves = <<Move(<<nFile1>>, <<nTxt, nFile1>>), Move(<<nSong>>, <<nMp3, nSong>>)>>

RECURSIVE NodeShowsDisk(_, _, _, _)
\* node is what the disk f holds at the absolute path p, relative_path rel
NodeShowsDisk(f, node, p, rel) ==
    /\ node.id = rel /\ node.relative_path = rel
    /\ IF IsDir(f, p)
       THEN /\ node.type = "folder" /\ node.size = -1
            /\ Len(node.children) = Cardinality(ChildNames(f, p))
            /\ {node.children[i].name : i \in DOMAIN node.children} = ChildNames(f, p)
            /\ \A i \in 1..(Len(node.children) - 1) :
                  NameLess(node.children[i].name, node.children[i + 1].name)
            /\ \A i \in DOMAIN node.children :
                  NodeShowsDisk(f, node.children[i], Append(p, node.children[i].name),
                                Append(rel, node.children[i].name))
       ELSE /\ node.type = "file" /\ node.size = f.files[p]
            /\ node.children = << >>

C14_RootNeverRemoved ==
    (last.op = "prune" /\ IsDir(last.pre.fs, get_root_path)) => IsDir(fs, get_root_path)

\* an item that ended error in the failed undo can be moved now: its source is
\* there, its destination is not, and the OS refuses nothing
CauseRemoved(step, volume) ==
    LET from_abs == get_absolute_path(step.from_path)
        to_abs == get_absolute_path(step.to_path)
    IN  /\ Exists(fs, from_abs) /\ ~ Exists(fs, to_abs)
        /\ volume = "same" /\ ~ IsPrefix(from_abs, to_abs)
        /\ \A j \in 1..(Len(to_abs) - 1) : ~ IsFile(fs, SubSeq(to_abs, 1, j))

(* C11: when undo() has failed and every item it reported as error can now *)
(* be moved, the next undo() succeeds: it takes the batch off the stack    *)
(* and no item of it ends error, also when the failed call had moved some  *)
(* items back.                                                             *)
C11_RetrySucceeds ==
    [][ ( /\ last.op = "undo" /\ last.outcome = "UndoFailed"
          /\ last'.op = "undo"
          /\ \A k \in DOMAIN last.steps :
                Failed(last.steps[k]) => CauseRemoved(last.steps[k], last'.volume) )
        => ( /\ last'.outcome = "ok"
             /\ move_history' = Front(move_history) ) ]_vars

(* C13: the stack is, oldest first, the batches recorded by the apply      *)
(* calls that no undo has consumed; undo() reverses the items of the top   *)
(* batch and no other; a successful undo takes exactly that batch off and  *)
(* leaves the older ones as they were, so later undos find only them.      *)
C13_Lifo ==
    /\ Len(applied) = Len(move_history)
    /\ \A i \in DOMAIN move_history : move_history[i] = successful_moves(applied[i].steps)
    /\ (last.op = "undo" /\ last.pre.move_history # << >>) =>
          /\ last.moves = Top(last.pre.move_history)
          /\ last.undone.steps # << >>
          /\ last.moves = successful_moves(last.undone.steps)
          /\ Ran => /\ Len(last.steps) = Len(last.moves)
                    /\ \A i \in DOMAIN last.moves :
                          Occurrences(AsMoves(last.steps), reversed_moves(last.moves)[i])
                              = Occurrences(reversed_moves(last.moves),
                                            reversed_moves(last.moves)[i])
          /\ last.outcome = "ok" =>
                /\ Len(move_history) = Len(last.pre.move_history) - 1
                /\ move_history = Front(last.pre.move_history)

\* a successful undo on a stack of two different batches: the newer one is
\* reversed and taken off, the older one stays
C13_Witness ==
    /\ last.op = "undo" /\ last.outcome = "ok"
    /\ Len(last.pre.move_history) = 2
    /\ last.pre.move_history[1] # last.pre.move_history[2]
    /\ \E k \in DOMAIN last.steps : Moved(last.steps[k])
    /\ move_history = <<last.pre.move_history[1]>>

\* the directories of f with a regular file somewhere beneath them
HoldsFile(f, d) == \E p \in DOMAIN f.files : IsPrefix(d, p)

(* C21: when folder_paths is given to remove_empty_folders, the empty list *)
(* included, every path of the returned list is one of folder_paths and    *)
(* was a directory; no file is removed, no directory that holds an entry   *)
(* after the call, and no directory that folder_paths does not name.       *)
C21_OnlyListed ==
    (last.op = "prune" /\ last.given) =>
        LET listed == {get_absolute_path(last.folder_paths[i]) :
                          i \in {j \in DOMAIN last.folder_paths :
                                    validate_path(last.folder_paths[j])}}
        IN  /\ \A i \in DOMAIN last.removed :
                  /\ \E j \in DOMAIN last.folder_paths :
                        last.folder_paths[j] = last.removed[i]
                  /\ IsDir(last.pre.fs, get_absolute_path(last.removed[i]))
            /\ fs.files = last.pre.fs.files
            /\ \A d \in last.pre.fs.dirs \ fs.dirs :
                  /\ d \in listed
                  /\ ~ \E q \in Entries(fs) : IsPrefix(d, q)

(* C22: remove_empty_folders called without folder_paths, the OS refusing  *)
(* nothing: a directory that holds only directories without any file, at   *)
(* any depth, is removed in the call; afterwards no directory other than   *)
(* the root is empty, and every file and every directory with a file       *)
(* beneath it is where it was.                                             *)
C22_FullScanCascades ==
    (last.op = "prune" /\ ~ last.given /\ last.volume = "same") =>
        /\ fs.files = last.pre.fs.files
        /\ fs.dirs = {d \in last.pre.fs.dirs :
                         d = get_root_path \/ ~ IsPrefix(get_root_path, d)
                             \/ HoldsFile(last.pre.fs, d)}
        /\ \A d \in fs.dirs : d # get_root_path => ~ IsEmptyDir(fs, d)
        /\ {get_absolute_path(last.removed[i]) : i \in DOMAIN last.removed}
               = last.pre.fs.dirs \ fs.dirs

\* a directory that held only an empty directory went away with it, while a
\* directory with files stayed
C22_Witness ==
    /\ last.op = "prune" /\ ~ last.given /\ last.volume = "same"
    /\ \E d, e \in last.pre.fs.dirs :
          /\ Len(e) = Len(d) + 1 /\ IsPrefix(d, e)
          /\ d \notin fs.dirs /\ e \notin fs.dirs
    /\ \E d \in fs.dirs : d # get_root_path


\* the extensions of the files on the disk, as the planner names their buckets
BucketNames(f) ==
    {get_file_extension(p[Len(p)]) : p \in DOMAIN f.files} \ {NoExtension}

LooksLikeBucket(f, name) ==
    name \in BucketNames(f) /\ Len(name) <= ExtensionFolderMaxLen

(* C23: the plan of organize_by_file_type has no move for a file beneath a  *)
(* folder that looks like an extension bucket: a folder named as the        *)
(* extension of a file of the disk (such as txt), of at most 10 characters. *)
C23_BucketsSkipped ==
    (last.op = "organize" /\ last.outcome = "ok") =>
        \A i \in DOMAIN last.moves :
            LET from_abs == get_absolute_path(last.moves[i].from_path)
            IN  \A k \in 2..(Len(from_abs) - 1) : ~ LooksLikeBucket(fs, from_abs[k])


RECURSIVE FileNodes(_)
\* the file nodes of a tree
FileNodes(node) ==
    IF node.type = "file" THEN {node}
    ELSE UNION {FileNodes(node.children[i]) : i \in DOMAIN node.children}

(* C24: every move of the plan is for a file node of the scanned tree, its  *)
(* from_path that node's relative_path, and no two moves are for the same   *)
(* node; its to_path names <ext>/<name> inside the directory the file is in *)
(* (name unchanged, ext the lower-cased extension or no-extension), so the  *)
(* destination is inside the subtree of the file's current parent.          *)
C24_PlanShape ==
    (last.op = "organize" /\ last.outcome = "ok") =>
        /\ \A i \in DOMAIN last.moves :
              \E n \in FileNodes(last.tree) :
                  LET from_abs == get_absolute_path(n.relative_path)
                      to_abs == get_absolute_path(last.moves[i].to_path)
                  IN  /\ last.moves[i].from_path = n.relative_path
                      /\ IsFile(fs, from_abs)
                      /\ validate_path(last.moves[i].to_path)
                      /\ to_abs = Front(from_abs) \o <<get_file_extension(n.name), n.name>>
                      /\ IsPrefix(Front(from_abs), to_abs)
        /\ \A i, j \in DOMAIN last.moves :
              last.moves[i].from_path = last.moves[j].from_path => i = j

\* a plan with a move for a file of the root and one for a file of a folder
C24_Witness ==
    /\ last.op = "organize" /\ last.outcome = "ok"
    /\ \E i, j \in DOMAIN last.moves :
          /\ Len(get_absolute_path(last.moves[i].from_path)) = 2
          /\ Len(get_absolute_path(last.moves[j].from_path)) > 2
          /\ get_file_extension(Top(last.moves[j].from_path)) # NoExtension


Skipped(r) == r.status = "skip"

\* the disk the reversed apply of the last undo left, before any pruning
AfterReverse == FinalFs(last.pre.fs, last.steps)

(* C25: an undo whose reversed apply gives no error result and at least one *)
(* skip result reports success and consumes the batch; a skipped item       *)
(* writes nothing, so after the undo every file at or below its forward     *)
(* destination is still there and every file at or below its original path  *)
(* is as it was; and every parent directory of a forward destination that   *)
(* the reversed apply left empty is removed when the OS allows it.          *)
C25_UndoToleratesSkips ==
    ( /\ last.op = "undo" /\ last.pre.move_history # << >>
      /\ last.outcome # "Error"
      /\ last.steps # << >>
      /\ \A k \in DOMAIN last.steps : ~ Failed(last.steps[k])
      /\ \E k \in DOMAIN last.steps : Skipped(last.steps[k]) )
        => /\ last.outcome = "ok"
           /\ move_history = Front(last.pre.move_history)
           /\ \A k \in DOMAIN last.steps :
                 Skipped(last.steps[k]) =>
                     /\ last.steps[k].fs = Before(k)
                     /\ \A q \in DOMAIN Before(k).files :
                           (IsPrefix(FromAbs(k), q) \/ IsPrefix(ToAbs(k), q))
                               => IsFile(fs, q) /\ fs.files[q] = Before(k).files[q]
           /\ fs.files = AfterReverse.files
           /\ \A p \in folder_paths_to_check(last.moves) :
                 ( /\ last.volume = "same"
                   /\ validate_path(p)
                   /\ get_absolute_path(p) # get_root_path
                   /\ IsDir(AfterReverse, get_absolute_path(p))
                   /\ IsEmptyDir(AfterReverse, get_absolute_path(p)) )
                     => get_absolute_path(p) \notin fs.dirs

\* an undo with a skipped item that removed a directory of a forward destination
C25_Witness ==
    /\ last.op = "undo" /\ last.outcome = "ok"
    /\ \E k \in DOMAIN last.steps : Skipped(last.steps[k]) /\ Exists(fs, ToAbs(k))
    /\ \E k \in DOMAIN last.steps : Moved(last.steps[k])
    /\ last.removed # << >>


\* the contents of the regular files of a disk, each with the number of files
\* that hold it
Contents(f) ==
    {<<c, Cardinality({p \in DOMAIN f.files : f.files[p] = c})>> :
        c \in {f.files[p] : p \in DOMAIN f.files}}

(* C28: every call of apply (dry or real), undo and remove_empty_folders    *)
(* leaves the multiset of file contents of the disk as it found it: no file *)
(* is deleted, overwritten or duplicated, and every file is below the root. *)
C28_NoFileLost ==
    /\ Contents(fs) = Contents(last.pre.fs)
    /\ Cardinality(DOMAIN fs.files) = Cardinality(DOMAIN last.pre.fs.files)
    /\ \A p \in DOMAIN fs.files : IsPrefix(get_root_path, p)

\* an undo that moved a file back by copy and delete and pruned a directory
C28_Witness ==
    /\ last.op = "undo" /\ last.outcome = "ok"
    /\ \E k \in DOMAIN last.steps : last.steps[k].status = "moved_fallback"
    /\ last.removed # << >>
    /\ DOMAIN fs.files # DOMAIN last.pre.fs.files


\* the results a dry run of the last call's batch gives on the disk the call found
DryResults == apply_moves(last.pre.fs, last.moves, TRUE, "same").steps

(* C29: a real apply in which no OS call failed gives every item the        *)
(* classification a dry run of the same batch on the same disk gives it:    *)
(* dry_ok where the real run has moved or moved_fallback, skip where it has *)
(* skip, error where it has error.                                          *)
C29_PreviewFidelity ==
    ( /\ last.op = "apply" /\ ~ last.dry_run /\ last.outcome = "ok"
      /\ \A k \in DOMAIN last.steps : last.steps[k].reason # "os_error" )
        => /\ Len(DryResults) = Len(last.steps)
           /\ \A k \in DOMAIN last.steps :
                 /\ DryResults[k].from_path = last.steps[k].from_path
                 /\ DryResults[k].to_path = last.steps[k].to_path
                 /\ (DryResults[k].status = "dry_ok") = Moved(last.steps[k])
                 /\ (DryResults[k].status = "skip") = Skipped(last.steps[k])
                 /\ (DryResults[k].status = "error") = Failed(last.steps[k])

(* C30: a directory that existed before a real apply still exists after     *)
(* that apply followed by a successful undo, and the directories the undo   *)
(* pruned did not exist before the apply.                                   *)
C30_PreExistingDirsKept ==
    (UndoFollowsApply /\ last.outcome = "ok") =>
        /\ last.undone.before.dirs \subseteq fs.dirs
        /\ \A i \in DOMAIN last.removed :
              get_absolute_path(last.removed[i]) \notin last.undone.before.dirs


(* C26: set_root_path(p) returns true exactly when abspath(p) is an         *)
(* existing directory, and then get_root_path is abspath(p); when it        *)
(* returns false get_root_path is what it was; no other call changes it,    *)
(* and it is the default root as long as no call has set it.                *)
C26_RootConfiguration ==
    /\ last.op = "set_root" =>
          /\ last.ret = IsDir(last.pre.fs, abspath(last.root_path))
          /\ last.ret => get_root_path = abspath(last.root_path)
          /\ ~ last.ret => get_root_path = last.pre.root
    /\ last.op # "set_root" => get_root_path = last.pre.root
    /\ ~ runtime_root_path.set => get_root_path = DefaultRoot

\* a root set while another one was set, from a path that is not normalised
C26_Witness ==
    /\ last.op = "set_root" /\ last.ret
    /\ last.pre.root # DefaultRoot
    /\ get_root_path # last.pre.root
    /\ get_root_path # Tail(last.root_path)


\* task t is between the first and the last access of its handler
Mid(t) == loop.task[t].st = "moving"

(* C27: the runs of the apply and undo handlers do not interleave: at most  *)
(* one handler is between its first and its last access to the stack or the *)
(* disk; while a handler is there the stack is the one it found (less the   *)
(* batch it popped, for an undo), so no other undo can pop that batch; and  *)
(* the writes to the disk of one handler are consecutive, none of another   *)
(* handler between two of them.                                             *)
C27_Serialised ==
    /\ \A t, u \in 1..MaxTasks : (Mid(t) /\ Mid(u)) => t = u
    /\ \A t \in 1..MaxTasks :
          Mid(t) => move_history = IF loop.task[t].op = "undo"
                                    THEN Front(loop.task[t].history)
                                    ELSE loop.task[t].history
    /\ \A i, j, k \in DOMAIN loop.log :
          (i < j /\ j < k /\ loop.log[i] = loop.log[k]) => loop.log[j] = loop.log[i]

\* an undo has moved an item back and has more to do, while a request that arrived
\* during an earlier handler's run, which wrote to the disk, has run to its end
C27_Witness ==
    \E t, u \in 1..MaxTasks :
        /\ t # u
        /\ Mid(t) /\ loop.task[t].op = "undo" /\ loop.task[t].todo # << >>
        /\ \E k \in DOMAIN loop.task[t].steps : Moved(loop.task[t].steps[k])
        /\ loop.task[u].st = "done" /\ loop.task[u].op = "apply"
        /\ \E i \in DOMAIN loop.log : loop.log[i] = u
        /\ (loop.task[t].concurrent \/ loop.task[u].concurrent)


\* the positions of the results that are moved or moved_fallback
MovedAt(steps) == {k \in DOMAIN steps : Moved(steps[k])}

(* C31: the batch a real apply pushes holds one entry for each result that  *)
(* is moved or moved_fallback and none for a skip or error result, the      *)
(* entries in the order of those results; and every item an undo attempts   *)
(* is the reverse of an item that the apply which recorded the batch moved, *)
(* one attempt for each.                                                    *)
C31_RecordedBatch ==
    /\ ( /\ last.op = "apply" /\ ~ last.dry_run
         /\ Len(move_history) > Len(last.pre.move_history) )
          => LET batch == Top(move_history)
             IN  \E at \in [DOMAIN batch -> DOMAIN last.steps] :
                    /\ \A i, j \in DOMAIN batch : i < j => at[i] < at[j]
                    /\ {at[i] : i \in DOMAIN batch} = MovedAt(last.steps)
                    /\ \A i \in DOMAIN batch :
                          /\ batch[i].from_path = last.steps[at[i]].from_path
                          /\ batch[i].to_path = last.steps[at[i]].to_path
    /\ (last.op = "undo" /\ last.pre.move_history # << >>)
          => /\ last.moves = Top(last.pre.move_history)
             /\ Cardinality(MovedAt(last.undone.steps)) = Len(last.moves)
             /\ last.outcome # "Error" => Len(last.steps) = Len(last.moves)
             /\ \A k \in DOMAIN last.steps :
                   \E j \in MovedAt(last.undone.steps) :
                       /\ last.steps[k].from_path = last.undone.steps[j].to_path
                       /\ last.steps[k].to_path = last.undone.steps[j].from_path

\* an undo of a batch recorded by an apply that moved one item and did not
\* move another: the undo tries the moved one only
C31_Witness ==
    /\ last.op = "undo" /\ last.steps # << >>
    /\ MovedAt(last.undone.steps) # {}
    /\ MovedAt(last.undone.steps) # DOMAIN last.undone.steps
    /\ Len(last.steps) < Len(last.undone.steps)


\* what the disk holds outside directory root
Outside(f, root) ==
    [dirs |-> {d \in f.dirs : ~ IsPrefix(root, d)},
     files |-> {<<q, f.files[q]>> : q \in {p \in DOMAIN f.files : ~ IsPrefix(root, p)}}]

(* C32: a call of set_root_path, successful or not, leaves the undo stack   *)
(* and the disk as they were; an undo takes each path of the popped batch   *)
(* below the root that is current when the undo runs: an item is            *)
(* source_not_found, skipped or moved according to what the disk holds      *)
(* below that root, and the undo changes nothing outside it.                *)
C32_RootChangeKeepsHistory ==
    /\ last.op = "set_root" =>
          move_history = last.pre.move_history /\ fs = last.pre.fs
    /\ (last.op = "undo" /\ last.outcome \in {"ok", "UndoFailed"}) =>
          /\ get_root_path = last.pre.root
          /\ last.moves = Top(last.pre.move_history)
          /\ Outside(fs, last.pre.root) = Outside(last.pre.fs, last.pre.root)
          /\ \A k \in DOMAIN last.steps :
                LET step == last.steps[k]
                    from == AbsJoin(last.pre.root, step.from_path)
                    to == AbsJoin(last.pre.root, step.to_path)
                IN  /\ (step.reason = "source_not_found") = ~ Exists(Before(k), from)
                    /\ Skipped(step) = (Exists(Before(k), from) /\ Exists(Before(k), to))
                    /\ Moved(step) => /\ Exists(Before(k), from) /\ ~ Exists(Before(k), to)
                                      /\ ~ Exists(step.fs, from) /\ Exists(step.fs, to)

\* an undo under another root than the one the batch was applied under: an
\* item is reported source_not_found although the file the apply moved is
\* where the apply put it
C32_Witness ==
    /\ last.op = "undo" /\ last.outcome = "UndoFailed"
    /\ last.undone.root # last.pre.root
    /\ move_history = last.pre.move_history
    /\ \E k \in DOMAIN last.steps :
          /\ last.steps[k].reason = "source_not_found"
          /\ Exists(Before(k), AbsJoin(last.undone.root, last.steps[k].from_path))

============================================================================
